---- MODULE Spec2Model ----
(***************************************************************************)
(* Model of the MYR/USDT rate monitor (myr-usdt-monitor).                  *)
(*                                                                         *)
(* Money amounts are integers in units of 0.00001 MYR (4.35 = 435000), so  *)
(* that the 4-decimal rounding of toFixed(4) is a real operation.  Time is *)
(* counted in units of the retention window of the history, 7 days         *)
(* (7 * 24 * 60 * 60 * 1000 ms = 1); the clock is an input of the steps    *)
(* that read Date.now(), and never goes back.                              *)
(*                                                                         *)
(* The main specification, Spec, follows initialization and the fetch      *)
(* cycle.  The refresh timers, the writes to Supabase and dailyStats are   *)
(* at rest in Spec and are followed by specifications of their own         *)
(* (SpecTimer, SpecPersist, SpecStats); the pure functions are applied to  *)
(* sampled arguments (fIn, fOut) in SpecRisk, SpecFetch, SpecLedger,       *)
(* SpecDedup, SpecRollup and SpecWindow.  SpecTimer counts time in units   *)
(* of 10 s, SpecRollup and SpecWindow in minutes.                          *)
(*                                                                         *)
(* React is modelled at the granularity of its handlers: the state updates *)
(* a handler makes, the re-render they cause and the effects of that       *)
(* re-render are one step.  A fetchRate call that is suspended at an await *)
(* keeps the values its closure captured when it was created.              *)
(***************************************************************************)
EXTENDS Integers, Sequences, FiniteSets, TLC

VARIABLES
    marketRate,            \* store.marketRate
    platformRate,          \* store.platformRate
    lastUpdated,           \* store.lastUpdated
    rateHistory,           \* store.rateHistory
    consecutiveExpansions, \* store.consecutiveExpansions
    isInitialized,         \* store.isInitialized
    isLoading,             \* useRateFetcher: useState(false)
    error,                 \* useRateFetcher: useState<string | null>(null)
    previousDiff,          \* useRateFetcher: useState<number | null>(null)
    cycles,                \* fetchRate calls suspended in fetchUSDTMYRRate
    started,               \* number of fetchRate calls made so far
    syncPc,                \* position of syncWithSupabase
    now,                   \* Date.now() as read last, in units of 7 days
    last,                  \* observation: the fetchRate call that completed last
    fIn,                   \* argument of the pure function under check
    fOut,                  \* its result
    dailyStats,            \* store.dailyStats
    costBuffer,            \* store.costBuffer
    pending,               \* writes to the external store awaiting their answer
    timer,                 \* the timers of the auto-refresh effect
    banner                 \* AlertBanner: store.alertDismissed and the riskLevel rendered last

vars == <<marketRate, platformRate, lastUpdated, rateHistory,
          consecutiveExpansions, isInitialized, isLoading, error,
          previousDiff, cycles, started, syncPc, now, last, fIn, fOut,
          dailyStats, costBuffer, pending, timer, banner>>

\* State that the fetch cycle neither reads nor writes; each part is followed
\* by a specification of its own.
sideVars == <<dailyStats, costBuffer, pending, timer, banner>>

coreVars == <<marketRate, lastUpdated, rateHistory, consecutiveExpansions,
              previousDiff>>

-----------------------------------------------------------------------------
(* Bounds *)

MaxCycles == 4      \* fetchRate calls per behaviour
MaxInFlight == 2    \* fetchRate calls suspended at the same time
MaxTime == 1        \* latest reading of the clock
MaxExp == 3         \* largest counter passed to the classifier under check
MaxHistory == 3     \* longest history passed to addRateRecord under check
MaxWrites == 2      \* requests the store makes to Supabase in one run
MaxDate == 9        \* last day for which updateDailyStats is called
MaxRows == 8        \* most rows in the daily_stats table
MaxDays == 8        \* most dates with a record in the history under check
MaxLedger == 51     \* longest history that is exported
MaxQuiet == 13      \* longest time without a fetchRate() call that is counted
MaxHalfWeeks == 2   \* latest reading of the clock where it counts half weeks

-----------------------------------------------------------------------------
(* Values *)

DefaultPlatformRate == 435000

PlatformRates == {435000, 440000}

MarketRates == {434000, 433000, 432000}

DiffSamples == {d * 500 : d \in -18..18}

RiskLevels == {"safe", "warning", "danger", "critical"}

NoError == "null"

Null == [isNull |-> TRUE, val |-> 0]

Some(v) == [isNull |-> FALSE, val |-> v]

Abs(x) == IF x < 0 THEN -x ELSE x

SevenDays == 1

-----------------------------------------------------------------------------
(* services/rateApi.ts *)

\* The sources in the order in which the comments of rateApi.ts number them
\* (Source 3: Frankfurter, Source 4: Currency API).
rateSourcesAsNumbered == <<"ExchangeRate API", "Open ER API", "Frankfurter", "Currency API">>

rateSources == <<"ExchangeRate API", "Open ER API", "Currency API", "Frankfurter">>

SourceNames == {"ExchangeRate API", "Open ER API", "Currency API", "Frankfurter"}

\* What one source does when it is queried: it returns a rate, or it throws
\* `<name> failed` (response not OK) or the TypeError of fetch (no response).
SourceOutcomes ==
    [ok : {TRUE}, rate : MarketRates, kind : {"none"}] \cup
    [ok : {FALSE}, rate : {0}, kind : {"http", "network"}]

SourceError(name, kind) == [source |-> name, kind |-> kind]

NoSourceError == SourceError("none", "none")

Message(e) ==
    IF e.kind = "network" THEN "Failed to fetch"
    ELSE CASE e.source = "ExchangeRate API" -> "ExchangeRate API failed"
           [] e.source = "Open ER API" -> "Open ER API failed"
           [] e.source = "Currency API" -> "Currency API failed"
           [] e.source = "Frankfurter" -> "Frankfurter API failed"
           [] OTHER -> "All rate sources failed"

\* A loop that remembers the first error instead of the last one.
CatchFirstError(lastError, e) ==
    IF lastError.source = "none" THEN e ELSE lastError

\* catch (error) { lastError = error }
CatchSourceError(lastError, e) == e

\* The loop of fetchUSDTMYRRate from source i on.  outcomes[name] is what the
\* source of that name does if it is queried; asked is the sequence of
\* sources queried so far.
RECURSIVE TrySources(_, _, _, _)
TrySources(i, lastError, asked, outcomes) ==
    IF i > Len(rateSources)
    THEN [ok |-> FALSE, rate |-> 0, error |-> lastError, asked |-> asked]
    ELSE LET source == rateSources[i] IN
         IF outcomes[source].ok
         THEN [ok |-> TRUE, rate |-> outcomes[source].rate,
               error |-> NoSourceError, asked |-> Append(asked, source)]
         ELSE TrySources(i + 1,
                         CatchSourceError(lastError,
                                          SourceError(source, outcomes[source].kind)),
                         Append(asked, source), outcomes)

fetchUSDTMYRRate(outcomes) == TrySources(1, NoSourceError, <<>>, outcomes)

-----------------------------------------------------------------------------
(* utils/rateUtils.ts *)

\* The classifier with the lock-window rules at the warning threshold.
calculateRiskLevelOneWarningLevel(diff, isLockWindow, exps) ==
    LET absSpread == Abs(diff) IN
    IF absSpread >= 8000 THEN "critical"
    ELSE IF isLockWindow /\ exps >= 2 /\ absSpread >= 5000 THEN "critical"
    ELSE IF absSpread >= 6000 THEN "danger"
    ELSE IF absSpread >= 5000 THEN "warning"
    ELSE "safe"

calculateRiskLevel(diff, isLockWindow, exps) ==
    LET absSpread == Abs(diff) IN
    IF absSpread >= 8000 THEN "critical"
    ELSE IF isLockWindow /\ exps >= 2 /\ absSpread >= 4000 THEN "critical"
    ELSE IF absSpread >= 6000 THEN "danger"
    ELSE IF absSpread >= 5000 THEN "warning"
    ELSE IF isLockWindow /\ absSpread >= 4000 THEN "warning"
    ELSE "safe"

\* calculateRiskLevel of part_003, with marketRate, platformRate and the
\* thresholds as parameters: const gap = platformRate - marketRate;
\* if (gap <= thresholds.critical) return 'critical'; ...
calculateRiskLevelByGap(mr, pr, isLockWindow, exps, thresholds) ==
    LET gap == pr - mr IN
    IF gap <= thresholds.critical THEN "critical"
    ELSE IF isLockWindow /\ exps >= 2 /\ gap <= thresholds.warning THEN "critical"
    ELSE IF gap <= thresholds.danger THEN "danger"
    ELSE IF gap <= thresholds.warning THEN "warning"
    ELSE "safe"

\* Number(x.toFixed(4)) for x >= 0
toFixed4(x) == ((x + 5) \div 10) * 10

\* getRefreshInterval of part_002, in units of 10 s: return 10000.
getRefreshInterval(isLockWindow) == 1

\* getRefreshInterval of part_003: isLockWindow ? 30000 : 60000.
getRefreshIntervalByWindow(isLockWindow) == IF isLockWindow THEN 3 ELSE 6

RateUtils == {"part_002", "part_003"}

RefreshInterval(utils, isLockWindow) ==
    IF utils = "part_002" THEN getRefreshInterval(isLockWindow)
    ELSE getRefreshIntervalByWindow(isLockWindow)

-----------------------------------------------------------------------------
(* store/rateStore.ts *)

RateRecord(ts, mr, pr, d, risk) ==
    [timestamp |-> ts, marketRate |-> mr, platformRate |-> pr, diff |-> d,
     riskLevel |-> risk]

\* A filter that keeps the record that is exactly 7 days old.
KeptInclusive(r, sevenDaysAgo) == r.timestamp >= sevenDaysAgo

\* history.filter(r => r.timestamp > sevenDaysAgo)
Kept(r, sevenDaysAgo) == r.timestamp > sevenDaysAgo

\* A store that puts the new record in front of the ones it keeps.
addRateRecordFirst(history, record, sevenDaysAgo) ==
    <<record>> \o SelectSeq(history, LAMBDA r : Kept(r, sevenDaysAgo))

\* [...history.filter(...), newRecord], sevenDaysAgo being given
addRateRecordSince(history, record, sevenDaysAgo) ==
    LET filtered == SelectSeq(history, LAMBDA r : Kept(r, sevenDaysAgo))
    IN  Append(filtered, record)

\* const sevenDaysAgo = Date.now() - 7 * 24 * 60 * 60 * 1000, Date.now()
\* reading t
addRateRecord(history, record, t) ==
    addRateRecordSince(history, record, t - SevenDays)

\* A store that publishes the rate with the cost buffer added.
setMarketRateBuffered(rate, t) ==
    [marketRate |-> rate + 2500, lastUpdated |-> t]

\* setMarketRate: (rate) => set({ marketRate: rate, lastUpdated: Date.now() })
setMarketRate(rate, t) == [marketRate |-> rate, lastUpdated |-> t]

incrementExpansions(n) == n + 1

resetExpansions(n) == 0

-----------------------------------------------------------------------------
(* hooks/useRateFetcher.ts: fetchRate *)

\* A fetchRate call in flight (suspended at await fetchUSDTMYRRate()).
\* platformRate, previousDiff and consecutiveExpansions are the values the
\* useCallback closure captured in the render that created it; overlapped
\* records whether another call was in flight at some moment of this one.
NewCycle(pr, pd, ce, others) ==
    [platformRate |-> pr, previousDiff |-> pd, consecutiveExpansions |-> ce,
     overlapped |-> (Len(others) > 0)]

MarkOverlap(S) == [i \in 1..Len(S) |-> [S[i] EXCEPT !.overlapped = TRUE]]

\* cycles after one more fetchRate() call made in a render with these values
WithNewCycle(S, pr, pd, ce) == Append(MarkOverlap(S), NewCycle(pr, pd, ce, S))

Remove(S, k) == [i \in 1..(Len(S) - 1) |-> IF i < k THEN S[i] ELSE S[i + 1]]

\* A tracker that counts an equal spread as an expansion.
TrackExpansionsNonStrict(prevDiff, storeExps, diff) ==
    IF prevDiff.isNull THEN storeExps
    ELSE IF Abs(diff) >= Abs(prevDiff.val) THEN incrementExpansions(storeExps)
    ELSE resetExpansions(storeExps)

\* if (previousDiff !== null) { if (Math.abs(diff) > Math.abs(previousDiff))
\*   incrementExpansions(); else resetExpansions(); }
TrackExpansions(prevDiff, storeExps, diff) ==
    IF prevDiff.isNull THEN storeExps
    ELSE IF Abs(diff) > Abs(prevDiff.val) THEN incrementExpansions(storeExps)
    ELSE resetExpansions(storeExps)

\* calculateRiskLevel(diff, isLockWindow, consecutiveExpansions): the third
\* argument is the variable of the closure, not the store's counter after
\* the update above.
CycleRisk(closureExps, storeExps, diff, isLockWindow) ==
    calculateRiskLevel(diff, isLockWindow, closureExps)

\* A comparison of the rates as they are, without toFixed(4).
IsChangedUnrounded(history, rate, pr) ==
    LET n == Len(history) IN
    IF n = 0 THEN TRUE
    ELSE \/ history[n].marketRate # rate
         \/ history[n].platformRate # pr

\* isRateChanged || isPlatformChanged
IsChanged(history, rate, pr) ==
    LET n == Len(history) IN
    IF n = 0 THEN TRUE
    ELSE \/ toFixed4(history[n].marketRate) # toFixed4(rate)
         \/ toFixed4(history[n].platformRate) # toFixed4(pr)

\* The history after the "Add to history" block of fetchRate.
RecordCycleSince(history, changed, record, sevenDaysAgo) ==
    IF changed THEN addRateRecordSince(history, record, sevenDaysAgo)
    ELSE history

RecordCycle(history, changed, record, t) ==
    RecordCycleSince(history, changed, record, t - SevenDays)

\* The dependency list of useCallback: a new fetchRate is created when one of
\* these changed, and the auto-refresh effect depends on fetchRate.
FetchRateDeps(pr, pd, ce) == <<pr, pd, ce>>

\* An effect without the isInitialized test.
EffectRunsUngated(initialized, depsBefore, depsAfter) ==
    depsBefore # depsAfter

\* The auto-refresh effect runs again after a render: if (!isInitialized)
\* return; fetchRate().
EffectRuns(initialized, depsBefore, depsAfter) ==
    initialized /\ depsBefore # depsAfter

\* rate is what fetchUSDTMYRRate returned in the call that succeeded last.
NoCycle == [kind |-> "none", appended |-> FALSE, overlapped |-> FALSE,
            rate |-> 0]

\* fetchRate() called by the refresh timer, by the refresh button of
\* CurrentRateCard (disabled while isLoading) or by the retry button of the
\* error banner (rendered while error is set).
CallFetchRate(trigger) ==
    /\ started < MaxCycles
    /\ Len(cycles) < MaxInFlight
    /\ CASE trigger = "timer" -> isInitialized
         [] trigger = "refresh" -> ~isLoading
         [] trigger = "retry" -> error # NoError
    /\ isLoading' = TRUE
    /\ error' = NoError
    /\ cycles' = WithNewCycle(cycles, platformRate, previousDiff,
                              consecutiveExpansions)
    /\ started' = started + 1
    /\ UNCHANGED <<marketRate, platformRate, lastUpdated, rateHistory,
                   consecutiveExpansions, isInitialized, previousDiff, syncPc,
                   now, last, fIn, fOut, sideVars>>

\* A catch block that also clears the published rate.
FetchFailsClearingRate(k, res) ==
    /\ k \in 1..Len(cycles)
    /\ ~res.ok
    /\ cycles' = Remove(cycles, k)
    /\ error' = Message(res.error)
    /\ isLoading' = FALSE
    /\ marketRate' = 0
    /\ last' = [kind |-> "failed", appended |-> FALSE,
                overlapped |-> cycles[k].overlapped, rate |-> last.rate]
    /\ UNCHANGED <<platformRate, lastUpdated, rateHistory,
                   consecutiveExpansions, isInitialized, previousDiff,
                   started, syncPc, now, fIn, fOut, sideVars>>

\* A catch block that calls fetchRate() again.
FetchFailsRetrying(k, res) ==
    /\ k \in 1..Len(cycles)
    /\ ~res.ok
    /\ started < MaxCycles
    /\ cycles' = WithNewCycle(Remove(cycles, k), platformRate, previousDiff,
                              consecutiveExpansions)
    /\ started' = started + 1
    /\ error' = NoError
    /\ isLoading' = TRUE
    /\ last' = [kind |-> "failed", appended |-> FALSE,
                overlapped |-> cycles[k].overlapped, rate |-> last.rate]
    /\ UNCHANGED <<marketRate, platformRate, lastUpdated, rateHistory,
                   consecutiveExpansions, isInitialized, previousDiff,
                   syncPc, now, fIn, fOut, sideVars>>

\* catch (err) { setError(err.message) } finally { setIsLoading(false) }
FetchFails(k, res) ==
    /\ k \in 1..Len(cycles)
    /\ ~res.ok
    /\ cycles' = Remove(cycles, k)
    /\ error' = Message(res.error)
    /\ isLoading' = FALSE
    /\ last' = [kind |-> "failed", appended |-> FALSE,
                overlapped |-> cycles[k].overlapped, rate |-> last.rate]
    /\ UNCHANGED <<marketRate, platformRate, lastUpdated, rateHistory,
                   consecutiveExpansions, isInitialized, previousDiff,
                   started, syncPc, now, fIn, fOut, sideVars>>

\* A spread with the opposite sign.
SpreadReversed(pr, rate) == rate - pr

\* const diff = platformRate - rate
Spread(pr, rate) == pr - rate

\* The try block after the await, then finally { setIsLoading(false) }.  When
\* the re-render creates a new fetchRate and the store is initialized, the
\* auto-refresh effect runs again and calls fetchRate() ("Initial fetch").
\* t is Date.now() and isLockWindow is isLockPriceWindow() in this step,
\* sevenDaysAgo the limit addRateRecord computes from Date.now().
FetchSucceedsSince(k, res, isLockWindow, t, sevenDaysAgo) ==
    LET c == cycles[k]
        rate == res.rate
        diff == Spread(c.platformRate, rate)
        exps1 == TrackExpansions(c.previousDiff, consecutiveExpansions, diff)
        risk == CycleRisk(c.consecutiveExpansions, exps1, diff, isLockWindow)
        changed == IsChanged(rateHistory, rate, c.platformRate)
        record == RateRecord(t, rate, c.platformRate, diff, risk)
        rest == Remove(cycles, k)
        rerun == EffectRuns(isInitialized,
                    FetchRateDeps(platformRate, previousDiff, consecutiveExpansions),
                    FetchRateDeps(platformRate, Some(diff), exps1))
    IN  /\ k \in 1..Len(cycles)
        /\ res.ok
        /\ now' = t
        /\ rerun => started < MaxCycles
        /\ marketRate' = setMarketRate(rate, t).marketRate
        /\ lastUpdated' = setMarketRate(rate, t).lastUpdated
        /\ consecutiveExpansions' = exps1
        /\ previousDiff' = Some(diff)
        /\ rateHistory' = RecordCycleSince(rateHistory, changed, record,
                                            sevenDaysAgo)
        /\ last' = [kind |-> "ok", appended |-> changed,
                    overlapped |-> c.overlapped, rate |-> res.rate]
        /\ IF rerun
           THEN /\ cycles' = WithNewCycle(rest, platformRate, Some(diff), exps1)
                /\ started' = started + 1
                /\ isLoading' = TRUE
                /\ error' = NoError
           ELSE /\ cycles' = rest
                /\ isLoading' = FALSE
                /\ UNCHANGED <<started, error>>
        /\ UNCHANGED <<platformRate, isInitialized, syncPc, fIn, fOut, sideVars>>

\* The try block of fetchRate after the await, Date.now() reading t.
FetchSucceeds(k, res, isLockWindow, t) ==
    FetchSucceedsSince(k, res, isLockWindow, t, t - SevenDays)

-----------------------------------------------------------------------------
(* components/SettingsPanel.tsx, store: setPlatformRate *)

\* handleSave -> setPlatformRate(newRate).  A changed platformRate creates a
\* new fetchRate, so the auto-refresh effect runs again once initialized.
SetPlatformRate(r) ==
    LET rerun == isInitialized /\ r # platformRate IN
    /\ rerun => (started < MaxCycles /\ Len(cycles) < MaxInFlight)
    /\ platformRate' = r
    /\ IF rerun
       THEN /\ cycles' = WithNewCycle(cycles, r, previousDiff,
                                      consecutiveExpansions)
            /\ started' = started + 1
            /\ isLoading' = TRUE
            /\ error' = NoError
       ELSE UNCHANGED <<cycles, started, isLoading, error>>
    /\ UNCHANGED <<marketRate, lastUpdated, rateHistory, consecutiveExpansions,
                   isInitialized, previousDiff, syncPc, now, last, fIn, fOut, sideVars>>

-----------------------------------------------------------------------------
(* store: syncWithSupabase, called once by the mount effect of App *)

\* Rows the rate_history table can answer with: the query selects
\* timestamp > sevenDaysAgo in ascending order of timestamp, the query being
\* made at the instant the clock was read last.
RemoteRecord(ts) == RateRecord(ts, 434000, DefaultPlatformRate, 1000, "safe")

RemoteHistories(t) ==
    {<<>>} \cup {<<RemoteRecord(ts)>> : ts \in {x \in (t - SevenDays)..t : x > t - SevenDays}}

\* A request throws: the catch block logs, isInitialized stays false.
SyncThrows ==
    /\ syncPc \in {"settings", "history", "stats"}
    /\ syncPc' = "failed"
    /\ UNCHANGED <<marketRate, platformRate, lastUpdated, rateHistory,
                   consecutiveExpansions, isInitialized, isLoading, error,
                   previousDiff, cycles, started, now, last, fIn, fOut, sideVars>>

\* The app_settings request returns (data null, no platform_rate row, or a
\* platform_rate row); the rate_history request is issued.
SyncSettings(hasRate, r) ==
    /\ syncPc = "settings"
    /\ platformRate' = IF hasRate THEN r ELSE platformRate
    /\ syncPc' = "history"
    /\ UNCHANGED <<marketRate, lastUpdated, rateHistory, consecutiveExpansions,
                   isInitialized, isLoading, error, previousDiff, cycles,
                   started, now, last, fIn, fOut, sideVars>>

\* The rate_history request returns; the daily_stats request is issued.
SyncHistory(hasData, history) ==
    /\ syncPc = "history"
    /\ rateHistory' = IF hasData THEN history ELSE rateHistory
    /\ syncPc' = "stats"
    /\ UNCHANGED <<marketRate, platformRate, lastUpdated,
                   consecutiveExpansions, isInitialized, isLoading, error,
                   previousDiff, cycles, started, now, last, fIn, fOut, sideVars>>

\* The daily_stats request returns: set({ isInitialized: true }), and the
\* auto-refresh effect of useRateFetcher runs: fetchRate().
SyncStats ==
    /\ syncPc = "stats"
    /\ started < MaxCycles
    /\ Len(cycles) < MaxInFlight
    /\ isInitialized' = TRUE
    /\ syncPc' = "done"
    /\ cycles' = WithNewCycle(cycles, platformRate, previousDiff,
                              consecutiveExpansions)
    /\ started' = started + 1
    /\ isLoading' = TRUE
    /\ error' = NoError
    /\ UNCHANGED <<marketRate, platformRate, lastUpdated, rateHistory,
                   consecutiveExpansions, previousDiff, now, last, fIn, fOut, sideVars>>

-----------------------------------------------------------------------------
(* The application *)

\* What the four sources answer during one fetchRate call: the first n fail
\* in the same way and the others return the same rate.
FirstFail(n, kind, rate) ==
    [name \in SourceNames |->
        IF \E i \in 1..n : rateSources[i] = name
        THEN [ok |-> FALSE, rate |-> 0, kind |-> kind]
        ELSE [ok |-> TRUE, rate |-> rate, kind |-> "none"]]

SampleOutcomes ==
    {FirstFail(0, "http", rate) : rate \in MarketRates} \cup
    {FirstFail(2, "network", 434000), FirstFail(Len(rateSources), "http", 0)}

\* What fetchUSDTMYRRate returns or throws for them.
SampleResults == {fetchUSDTMYRRate(outcomes) : outcomes \in SampleOutcomes}

\* The readings of Date.now() from the last one on.
Clock == now..MaxTime

NoCall == <<>>

DefaultCostBuffer == 2500

\* The timers of the auto-refresh effect.  Time is counted in units of 10 s
\* here: interval is the delay of the fetch timer, fetchIn and checkIn are
\* the times left until the fetch timer and checkInterval fire, utils is the
\* rateUtils in the build, isLockWindow what isLockPriceWindow() returns
\* now, sinceChange the time since it changed (60 s or more is 6), fired
\* whether fetchRate() was called in the last step, quiet the time since
\* the effect or the fetch timer called fetchRate() last (MaxQuiet or more is
\* MaxQuiet).
NoTimer ==
    [running |-> FALSE, utils |-> "part_002", isLockWindow |-> FALSE,
     interval |-> 0, fetchIn |-> 0, checkIn |-> 0, sinceChange |-> 6,
     fired |-> FALSE, quiet |-> 0]

\* AlertBanner before the first rate: alertDismissed: false, and the level
\* rendered for marketRate 0.  reset observes whether the effect of the last
\* render reset a dismissed alert.
NoBanner ==
    [alertDismissed |-> FALSE,
     riskLevel |-> calculateRiskLevel(DefaultPlatformRate - 0, FALSE, 0),
     reset |-> FALSE]

\* costBuffer: 0.025, dailyStats: [], no write issued, no timer set up,
\* alertDismissed: false.
SideIdle ==
    /\ dailyStats = <<>>
    /\ costBuffer = DefaultCostBuffer
    /\ pending = <<>>
    /\ timer = NoTimer
    /\ banner = NoBanner

\* rateHistory is persisted in localStorage (persist/partialize): the store
\* starts with what an earlier session left, here nothing or one record
\* that is exactly 7 days old when the application starts.
PersistedHistories == {<<>>, <<RemoteRecord(0 - SevenDays)>>}

Init ==
    /\ marketRate = 0
    /\ platformRate = DefaultPlatformRate
    /\ lastUpdated = 0
    /\ rateHistory \in PersistedHistories
    /\ consecutiveExpansions = 0
    /\ isInitialized = FALSE
    /\ isLoading = FALSE
    /\ error = NoError
    /\ previousDiff = Null
    /\ cycles = <<>>
    /\ started = 0
    /\ syncPc = "settings"
    /\ now = 0
    /\ last = NoCycle
    /\ fIn = NoCall
    /\ fOut = <<>>
    /\ SideIdle

Next ==
    \/ \E trigger \in {"timer", "refresh", "retry"} : CallFetchRate(trigger)
    \/ \E k \in 1..MaxInFlight, res \in SampleResults, isLockWindow \in BOOLEAN,
          t \in Clock : FetchSucceeds(k, res, isLockWindow, t)
    \/ \E k \in 1..MaxInFlight, res \in SampleResults : FetchFails(k, res)
    \/ \E r \in PlatformRates : SetPlatformRate(r)
    \/ SyncThrows
    \/ \E hasRate \in BOOLEAN, r \in PlatformRates : SyncSettings(hasRate, r)
    \/ \E hasData \in BOOLEAN, history \in RemoteHistories(now) :
          SyncHistory(hasData, history)
    \/ SyncStats

Spec == Init /\ [][Next]_vars

-----------------------------------------------------------------------------
(* The pure functions applied to sampled arguments *)

Idle ==
    /\ marketRate = 0
    /\ platformRate = DefaultPlatformRate
    /\ lastUpdated = 0
    /\ rateHistory = <<>>
    /\ consecutiveExpansions = 0
    /\ isInitialized = FALSE
    /\ isLoading = FALSE
    /\ error = NoError
    /\ previousDiff = Null
    /\ cycles = <<>>
    /\ started = 0
    /\ syncPc = "settings"
    /\ now = 0
    /\ last = NoCycle
    /\ SideIdle

appVars == <<marketRate, platformRate, lastUpdated, rateHistory,
             consecutiveExpansions, isInitialized, isLoading, error,
             previousDiff, cycles, started, syncPc, now, last>>

\* calculateRiskLevel
RiskInit ==
    /\ Idle
    /\ fIn \in [diff : DiffSamples, isLockWindow : BOOLEAN, exps : 0..MaxExp]
    /\ fOut = <<>>

CallRisk ==
    /\ fOut = <<>>
    /\ fOut' = <<calculateRiskLevel(fIn.diff, fIn.isLockWindow, fIn.exps)>>
    /\ UNCHANGED <<appVars, sideVars, fIn>>

RiskNext == CallRisk

SpecRisk == RiskInit /\ [][RiskNext]_vars

\* fetchUSDTMYRRate
FetchInit ==
    /\ Idle
    /\ fIn \in [SourceNames -> SourceOutcomes]
    /\ fOut = <<>>

CallFetch ==
    /\ fOut = <<>>
    /\ fOut' = <<fetchUSDTMYRRate(fIn)>>
    /\ UNCHANGED <<appVars, sideVars, fIn>>

FetchNext == CallFetch

SpecFetch == FetchInit /\ [][FetchNext]_vars

\* addRateRecord
LedgerTimes == (0 - SevenDays)..MaxTime

LedgerRecords ==
    {RateRecord(ts, mr, DefaultPlatformRate, DefaultPlatformRate - mr, "safe") :
        ts \in LedgerTimes, mr \in {434000, 433000}}

IsSorted(h) == \A i \in 1..(Len(h) - 1) : h[i].timestamp <= h[i + 1].timestamp

LedgerHistories ==
    {h \in UNION {[1..n -> LedgerRecords] : n \in 0..MaxHistory} : IsSorted(h)}

LedgerInit ==
    /\ Idle
    /\ fIn \in {x \in [history : LedgerHistories, record : LedgerRecords,
                      t : 0..MaxTime] :
                  /\ x.record.timestamp = x.t
                  /\ \A i \in 1..Len(x.history) : x.history[i].timestamp <= x.t}
    /\ fOut = <<>>

CallAddRateRecord ==
    /\ fOut = <<>>
    /\ fOut' = <<addRateRecord(fIn.history, fIn.record, fIn.t)>>
    /\ UNCHANGED <<appVars, sideVars, fIn>>

LedgerNext == CallAddRateRecord

SpecLedger == LedgerInit /\ [][LedgerNext]_vars

\* The "Add to history" block of fetchRate: rates that differ from the last
\* record before or only after the 4th decimal, with and without a record
\* that is 7 days old in front.
DedupMarketRates == {434000, 434004, 434010, 433000}

DedupPlatformRates == {435000, 435004, 440000}

DedupRecord(t, rate, pr) ==
    RateRecord(t, rate, pr, pr - rate, calculateRiskLevel(pr - rate, FALSE, 0))

DedupHistories(t) ==
    LET lasts == {DedupRecord(t, rate, pr) :
                     rate \in DedupMarketRates, pr \in DedupPlatformRates}
    IN  {<<>>} \cup {<<r>> : r \in lasts}
               \cup {<<RemoteRecord(t - SevenDays), r>> : r \in lasts}

DedupInit ==
    /\ Idle
    /\ fIn \in {x \in [history : UNION {DedupHistories(t) : t \in 0..MaxTime},
                      rate : DedupMarketRates, platformRate : DedupPlatformRates,
                      t : 0..MaxTime] :
                  x.history \in DedupHistories(x.t)}
    /\ fOut = <<>>

CallRecordCycle ==
    /\ fOut = <<>>
    /\ fOut' = <<RecordCycle(fIn.history,
                             IsChanged(fIn.history, fIn.rate, fIn.platformRate),
                             DedupRecord(fIn.t, fIn.rate, fIn.platformRate),
                             fIn.t)>>
    /\ UNCHANGED <<appVars, sideVars, fIn>>

DedupNext == CallRecordCycle

SpecDedup == DedupInit /\ [][DedupNext]_vars

-----------------------------------------------------------------------------
(* hooks/useRateFetcher.ts: the timers of the auto-refresh effect *)

\* setInterval(..., 60000) of checkInterval, in units of 10 s.
CheckEvery == 6

\* The application after syncWithSupabase, with no fetchRate call in flight.
Initialized ==
    /\ marketRate = 0
    /\ platformRate = DefaultPlatformRate
    /\ lastUpdated = 0
    /\ rateHistory = <<>>
    /\ consecutiveExpansions = 0
    /\ isInitialized = TRUE
    /\ isLoading = FALSE
    /\ error = NoError
    /\ previousDiff = Null
    /\ cycles = <<>>
    /\ started = 0
    /\ syncPc = "done"
    /\ now = 0
    /\ last = NoCycle

TimerInit ==
    /\ Initialized
    /\ fIn = NoCall
    /\ fOut = <<>>
    /\ dailyStats = <<>>
    /\ costBuffer = DefaultCostBuffer
    /\ pending = <<>>
    /\ banner = NoBanner
    /\ timer \in {[NoTimer EXCEPT !.utils = u, !.isLockWindow = w] :
                     u \in RateUtils, w \in BOOLEAN}

\* The effect runs, for the first time or again after its cleanup:
\* fetchRate(); intervalId = setupInterval(); checkInterval = setInterval(...).
EffectSetsTimers ==
    /\ isInitialized
    /\ timer' = [timer EXCEPT
                    !.running = TRUE,
                    !.interval = RefreshInterval(timer.utils, timer.isLockWindow),
                    !.fetchIn = RefreshInterval(timer.utils, timer.isLockWindow),
                    !.checkIn = CheckEvery,
                    !.fired = TRUE,
                    !.quiet = 0]
    /\ UNCHANGED <<appVars, fIn, fOut, dailyStats, costBuffer, pending, banner>>

\* 10 s pass and the timers that are due fire.  checkInterval clears the
\* fetch timer and sets it up again with the interval for the window as it
\* is now; when both are due in the same instant, fetchFirst tells whether
\* the fetch timer fires before it is cleared.
TimePasses(fetchFirst) ==
    LET fetchDue == timer.fetchIn = 1
        checkDue == timer.checkIn = 1
        interval1 == RefreshInterval(timer.utils, timer.isLockWindow)
    IN  /\ timer.running
        /\ ~fetchFirst => (fetchDue /\ checkDue)
        /\ timer' = [timer EXCEPT
               !.interval = IF checkDue THEN interval1 ELSE @,
               !.fetchIn = IF checkDue THEN interval1
                           ELSE IF fetchDue THEN timer.interval ELSE @ - 1,
               !.checkIn = IF checkDue THEN CheckEvery ELSE @ - 1,
               !.sinceChange = IF @ < 6 THEN @ + 1 ELSE @,
               !.fired = fetchDue /\ fetchFirst,
               !.quiet = IF fetchDue /\ fetchFirst THEN 0
                         ELSE IF @ < MaxQuiet THEN @ + 1 ELSE @]
        /\ UNCHANGED <<appVars, fIn, fOut, dailyStats, costBuffer, pending, banner>>

\* The clock enters or leaves 23:20 - 00:30 (GMT+8); the two instants are
\* more than a minute apart.
LockWindowChanges ==
    /\ timer.sinceChange = 6
    /\ timer' = [timer EXCEPT !.isLockWindow = ~@, !.sinceChange = 0,
                              !.fired = FALSE]
    /\ UNCHANGED <<appVars, fIn, fOut, dailyStats, costBuffer, pending, banner>>

TimerNext ==
    \/ EffectSetsTimers
    \/ \E fetchFirst \in BOOLEAN : TimePasses(fetchFirst)
    \/ LockWindowChanges

SpecTimer == TimerInit /\ [][TimerNext]_vars

-----------------------------------------------------------------------------
(* store: the writes to Supabase *)

\* DailyStats, with the figures of one day left at sample values.
DayStats(date, risk) ==
    [date |-> date, maxDiff |-> 5000, minDiff |-> 1000, avgDiff |-> 3000,
     maxMarketRate |-> 434000, minMarketRate |-> 430000,
     avgMarketRate |-> 432000, platformRate |-> DefaultPlatformRate,
     riskLevel |-> risk]

\* dailyStats.findIndex(s => s.date === stats.date), 0 for -1
FindIndex(stats, date) ==
    IF \E i \in 1..Len(stats) : stats[i].date = date
    THEN CHOOSE i \in 1..Len(stats) :
            /\ stats[i].date = date
            /\ \A j \in 1..(i - 1) : stats[j].date # date
    ELSE 0

\* dailyStats.slice(-n)
SliceLast(S, n) ==
    IF Len(S) <= n THEN S ELSE SubSeq(S, Len(S) - n + 1, Len(S))

\* if (existingIndex >= 0) dailyStats[existingIndex] = stats
\* else newDailyStats = [...dailyStats.slice(-6), stats]
updateDailyStats(stats, s) ==
    LET existingIndex == FindIndex(stats, s.date) IN
    IF existingIndex > 0
    THEN [stats EXCEPT ![existingIndex] = s]
    ELSE Append(SliceLast(stats, 6), s)

\* A request the store made to Supabase and where it stands.
Write(table, payload) ==
    [table |-> table, payload |-> payload, status |-> "inflight"]

\* A store that issues the request again when it failed.
SettleRetrying(writes, k, ok) ==
    IF ok
    THEN [writes EXCEPT ![k].status = "ok"]
    ELSE Append([writes EXCEPT ![k].status = "failed"], writes[k])

\* try { await supabase.from(...).upsert(...) } catch (error) {
\*   console.error(...) }
Settle(writes, k, ok) ==
    [writes EXCEPT ![k].status = IF ok THEN "ok" ELSE "failed"]

CostBuffers == {2500, 3000}

WrittenRecords ==
    {RateRecord(0, mr, DefaultPlatformRate, DefaultPlatformRate - mr, "safe") :
        mr \in {434000, 433000}}

WrittenStats == {DayStats(date, "safe") : date \in {1, 2}}
                    \cup {DayStats(1, "danger")}

\* setPlatformRate: set({ platformRate: rate }), then the upsert is issued.
PersistPlatformRate(rate) ==
    /\ Len(pending) < MaxWrites
    /\ platformRate' = rate
    /\ pending' = Append(pending, Write("platform_rate", rate))
    /\ UNCHANGED <<marketRate, lastUpdated, rateHistory, consecutiveExpansions,
                   isInitialized, isLoading, error, previousDiff, cycles,
                   started, syncPc, now, last, fIn, fOut, dailyStats,
                   costBuffer, timer, banner>>

\* setCostBuffer
PersistCostBuffer(buffer) ==
    /\ Len(pending) < MaxWrites
    /\ costBuffer' = buffer
    /\ pending' = Append(pending, Write("cost_buffer", buffer))
    /\ UNCHANGED <<appVars, fIn, fOut, dailyStats, timer, banner>>

\* addRateRecord
PersistRateRecord(record) ==
    /\ Len(pending) < MaxWrites
    /\ rateHistory' = addRateRecord(rateHistory, record, now)
    /\ pending' = Append(pending, Write("rate_history", record))
    /\ UNCHANGED <<marketRate, platformRate, lastUpdated,
                   consecutiveExpansions, isInitialized, isLoading, error,
                   previousDiff, cycles, started, syncPc, now, last, fIn,
                   fOut, dailyStats, costBuffer, timer, banner>>

\* updateDailyStats
PersistDailyStats(s) ==
    /\ Len(pending) < MaxWrites
    /\ dailyStats' = updateDailyStats(dailyStats, s)
    /\ pending' = Append(pending, Write("daily_stats", s))
    /\ UNCHANGED <<appVars, fIn, fOut, costBuffer, timer, banner>>

\* The request resolves or throws; the catch block only logs.
WriteSettles(k, ok) ==
    /\ k \in 1..Len(pending)
    /\ pending[k].status = "inflight"
    /\ pending' = Settle(pending, k, ok)
    /\ UNCHANGED <<appVars, fIn, fOut, dailyStats, costBuffer, timer, banner>>

PersistInit ==
    /\ Idle
    /\ fIn = NoCall
    /\ fOut = <<>>

PersistNext ==
    \/ \E rate \in PlatformRates : PersistPlatformRate(rate)
    \/ \E buffer \in CostBuffers : PersistCostBuffer(buffer)
    \/ \E record \in WrittenRecords : PersistRateRecord(record)
    \/ \E s \in WrittenStats : PersistDailyStats(s)
    \/ \E k \in 1..MaxWrites, ok \in BOOLEAN : WriteSettles(k, ok)

SpecPersist == PersistInit /\ [][PersistNext]_vars

-----------------------------------------------------------------------------
(* store: dailyStats *)

\* The rows of the daily_stats table, as select('*').order('date') returns
\* them.  updateDailyStats upserts one row per date and nothing deletes a
\* row, so the table holds every date that was ever written.
StatsTables == {[i \in 1..n |-> DayStats(i, "safe")] : n \in 0..MaxRows}

LatestDate(stats) == IF Len(stats) = 0 THEN 0 ELSE stats[Len(stats)].date

\* updateDailyStats for a date that is present, or for the day after the
\* latest one.
UpdateDailyStats(s) ==
    /\ s.date <= LatestDate(dailyStats) + 1
    /\ s.date <= MaxDate
    /\ dailyStats' = updateDailyStats(dailyStats, s)
    /\ UNCHANGED <<appVars, fIn, fOut, costBuffer, pending, timer, banner>>

\* clearHistory: () => set({ rateHistory: [], dailyStats: [] })
ClearHistory ==
    /\ rateHistory' = <<>>
    /\ dailyStats' = <<>>
    /\ UNCHANGED <<marketRate, platformRate, lastUpdated,
                   consecutiveExpansions, isInitialized, isLoading, error,
                   previousDiff, cycles, started, syncPc, now, last, fIn,
                   fOut, costBuffer, pending, timer, banner>>

\* syncWithSupabase, "Fetch daily stats": if (statsData) set({ dailyStats:
\* stats }), with every row of the table.
SyncDailyStats(hasData, rows) ==
    /\ dailyStats' = IF hasData THEN rows ELSE dailyStats
    /\ UNCHANGED <<appVars, fIn, fOut, costBuffer, pending, timer, banner>>

StatsInit ==
    /\ Idle
    /\ fIn = NoCall
    /\ fOut = <<>>

StatsNext ==
    \/ \E date \in 1..MaxDate, risk \in {"safe", "danger"} :
          UpdateDailyStats(DayStats(date, risk))
    \/ ClearHistory
    \/ \E hasData \in BOOLEAN, rows \in StatsTables : SyncDailyStats(hasData, rows)

SpecStats == StatsInit /\ [][StatsNext]_vars

-----------------------------------------------------------------------------
(* components/HistoryTable.tsx: the dailyStats memo *)

\* In this part timestamps are minutes since the epoch (UTC), and a host
\* timezone is its offset from UTC in minutes, east positive (the negative
\* of getTimezoneOffset()).  Dates are day numbers: 'yyyy-MM-dd' strings are
\* ordered by localeCompare as the days they name.
MinutesPerDay == 1440

GMT8 == 480

\* format(new Date(timestamp), 'yyyy-MM-dd'): the date on the host's clock
DateKey(timestamp, host) == (timestamp + host) \div MinutesPerDay

\* new Date(timestamp).getHours()
getHours(timestamp, host) == ((timestamp + host) % MinutesPerDay) \div 60

\* new Date(timestamp).getMinutes()
getMinutes(timestamp, host) == (timestamp + host) % 60

\* const riskOrder = { safe: 0, warning: 1, danger: 2, critical: 3 }
riskOrder(level) ==
    CASE level = "safe" -> 0
      [] level = "warning" -> 1
      [] level = "danger" -> 2
      [] level = "critical" -> 3

MathMax(a, b) == IF a >= b THEN a ELSE b

MathMin(a, b) == IF a <= b THEN a ELSE b

\* A quotient kept exact: sum / length
Quotient(sum, length) == [num |-> sum, den |-> length]

RECURSIVE SumSeq(_)
SumSeq(values) ==
    IF Len(values) = 0 THEN 0 ELSE values[1] + SumSeq(Tail(values))

\* An average that stays what the first record of the date set it to.
AverageOfFirst(values) == Quotient(values[1], 1)

\* dayRecords.reduce((sum, r) => sum + r.x, 0) / dayRecords.length
Average(values) == Quotient(SumSeq(values), Len(values))

\* A day's risk level that follows the latest record.
EscalateToLatest(current, level) == level

\* if (riskOrder[record.riskLevel] > riskOrder[stats.riskLevel])
\*   stats.riskLevel = record.riskLevel
Escalate(current, level) ==
    IF riskOrder(level) > riskOrder(current) THEN level ELSE current

\* if (hour === 23 && minute >= 45 && minute <= 55)
NearLockTime(timestamp, host) ==
    /\ getHours(timestamp, host) = 23
    /\ getMinutes(timestamp, host) >= 45
    /\ getMinutes(timestamp, host) <= 55

\* statsByDate.set(dateKey, {...}) for the first record of a date
FirstOfDate(dateKey, record) ==
    [date |-> dateKey, maxDiff |-> record.diff, minDiff |-> record.diff,
     avgDiff |-> Quotient(record.diff, 1),
     maxMarketRate |-> record.marketRate, minMarketRate |-> record.marketRate,
     avgMarketRate |-> Quotient(record.marketRate, 1),
     platformRate |-> record.platformRate, riskLevel |-> record.riskLevel,
     lockTimeRate |-> Null]

\* the else branch: a further record of a date
NextOfDate(stats, record, host) ==
    [stats EXCEPT
        !.maxDiff = MathMax(stats.maxDiff, record.diff),
        !.minDiff = MathMin(stats.minDiff, record.diff),
        !.maxMarketRate = MathMax(stats.maxMarketRate, record.marketRate),
        !.minMarketRate = MathMin(stats.minMarketRate, record.marketRate),
        !.lockTimeRate = IF NearLockTime(record.timestamp, host)
                         THEN Some(record.marketRate)
                         ELSE stats.lockTimeRate,
        !.riskLevel = Escalate(stats.riskLevel, record.riskLevel)]

\* statsByDate, in insertion order, after rateHistory.forEach has processed
\* the first i records
RECURSIVE GroupByDate(_, _, _)
GroupByDate(history, host, i) ==
    IF i = 0 THEN <<>>
    ELSE LET statsByDate == GroupByDate(history, host, i - 1)
             record == history[i]
             dateKey == DateKey(record.timestamp, host)
             k == FindIndex(statsByDate, dateKey)
         IN  IF k = 0
             THEN Append(statsByDate, FirstOfDate(dateKey, record))
             ELSE [statsByDate EXCEPT ![k] = NextOfDate(statsByDate[k], record, host)]

\* "Calculate averages"
WithAverages(statsByDate, history, host) ==
    [i \in 1..Len(statsByDate) |->
        LET dayRecords == SelectSeq(history, LAMBDA r :
                              DateKey(r.timestamp, host) = statsByDate[i].date)
            diffs == [j \in 1..Len(dayRecords) |-> dayRecords[j].diff]
            rates == [j \in 1..Len(dayRecords) |-> dayRecords[j].marketRate]
        IN  [statsByDate[i] EXCEPT !.avgDiff = Average(diffs),
                                   !.avgMarketRate = Average(rates)]]

\* .sort((a, b) => b.date.localeCompare(a.date)); the dates are distinct
RECURSIVE SortByDateDesc(_)
SortByDateDesc(stats) ==
    IF Len(stats) = 0 THEN <<>>
    ELSE LET k == CHOOSE i \in 1..Len(stats) :
                     \A j \in 1..Len(stats) : stats[j].date <= stats[i].date
         IN  <<stats[k]>> \o SortByDateDesc(Remove(stats, k))

\* .slice(0, n)
SliceFirst(S, n) == IF Len(S) <= n THEN S ELSE SubSeq(S, 1, n)

\* The value of the dailyStats memo for this rateHistory on this host
DerivedDailyStats(history, host) ==
    SliceFirst(SortByDateDesc(WithAverages(GroupByDate(history, host, Len(history)),
                                           history, host)), 7)

\* The UTC timestamp of a time of day in GMT+8
At(day, hour, minute) == day * MinutesPerDay + hour * 60 + minute - GMT8

\* Records of at most two dates, seen on a host in GMT+8, with the spreads
\* 0.01, 0.05, -0.02 and the four risk levels.
RollupValues ==
    {<<1000, "safe">>, <<5000, "warning">>, <<-2000, "safe">>,
     <<5000, "critical">>, <<1000, "danger">>, <<-2000, "warning">>}

Noon(day) == At(day, 12, 0)

ValueHistories ==
    UNION {{[i \in 1..n |->
                RateRecord(Noon(days[i]) + i, DefaultPlatformRate - values[i][1],
                           DefaultPlatformRate, values[i][1], values[i][2])] :
              days \in {d \in [1..n -> 1..2] :
                           \A i \in 2..n : d[i - 1] <= d[i]},
              values \in [1..n -> RollupValues]} :
           n \in 0..MaxHistory}

\* Records around the 23:45-23:55 minutes and around midnight of GMT+8, seen
\* on hosts in GMT+8, UTC, UTC-5 and UTC+5:30.
RollupTimes ==
    {At(1, 12, 0), At(1, 23, 44), At(1, 23, 45), At(1, 23, 50), At(1, 23, 55),
     At(1, 23, 56), At(2, 0, 10), At(2, 23, 50)}

TimedRecords ==
    {RateRecord(timestamp, mr, DefaultPlatformRate, DefaultPlatformRate - mr, "safe") :
        timestamp \in RollupTimes, mr \in {434000, 433000}}

TimedHistories ==
    {h \in UNION {[1..n -> TimedRecords] : n \in 1..MaxHistory} :
        \A i \in 2..Len(h) : h[i - 1].timestamp < h[i].timestamp}

Hosts == {GMT8, 0, -300, 330}

\* One record at noon of each of the first n days, seen in GMT+8.
DailyHistories ==
    {[i \in 1..n |-> RateRecord(Noon(i), 434000, DefaultPlatformRate, 1000, "safe")] :
        n \in 1..MaxDays}

RollupInit ==
    /\ Idle
    /\ fIn \in [history : ValueHistories \cup DailyHistories, host : {GMT8}]
               \cup [history : TimedHistories, host : Hosts]
    /\ fOut = <<>>

CallDerivedDailyStats ==
    /\ fOut = <<>>
    /\ fOut' = <<DerivedDailyStats(fIn.history, fIn.host)>>
    /\ UNCHANGED <<appVars, sideVars, fIn>>

RollupNext == CallDerivedDailyStats

SpecRollup == RollupInit /\ [][RollupNext]_vars

-----------------------------------------------------------------------------
(* utils/rateUtils.ts: isLockPriceWindow *)

\* The timezone of a host: its offset from UTC in minutes, east positive,
\* before and from the instant at which its clocks change (a host without
\* daylight saving time has the same offset on both sides).
Zone(before, after, change) ==
    [before |-> before, after |-> after, change |-> change]

Fixed(offset) == Zone(offset, offset, 0)

OffsetAt(zone, instant) ==
    IF instant < zone.change THEN zone.before ELSE zone.after

\* date.getTimezoneOffset(), in minutes
getTimezoneOffset(instant, zone) == 0 - OffsetAt(zone, instant)

\* const utc = date.getTime() + date.getTimezoneOffset() * 60000;
\* return new Date(utc + MALAYSIA_OFFSET * 3600000)
getMalaysiaTime(instant, zone) ==
    LET utc == instant + getTimezoneOffset(instant, zone)
    IN  utc + 8 * 60

\* if (hour === 23 && minute >= 20) return true;
\* if (hour === 0 && minute <= 30) return true; return false
isLockPriceWindow(instant, zone) ==
    LET myTime == getMalaysiaTime(instant, zone)
        hour == getHours(myTime, OffsetAt(zone, myTime))
        minute == getMinutes(myTime, OffsetAt(zone, myTime))
    IN  (hour = 23 /\ minute >= 20) \/ (hour = 0 /\ minute <= 30)

\* Every minute from 23:00 to 01:00 of a night in GMT+8, and the noon before.
WindowTimes == At(1, 23, 0)..At(2, 1, 0) \cup {Noon(1)}

\* Hosts in GMT+8, UTC, UTC-5, UTC+5:30 and UTC+12:45, and a host in UTC+10
\* whose clocks go forward one hour at 16:00 UTC of that night (02:00 on the
\* host, 00:00 in GMT+8).
FixedZones == {Fixed(GMT8), Fixed(0), Fixed(-300), Fixed(330), Fixed(765)}

ChangingZones == {Zone(600, 660, At(2, 0, 0))}

WindowInit ==
    /\ Idle
    /\ fIn \in [t : WindowTimes, zone : FixedZones \cup ChangingZones]
    /\ fOut = <<>>

CallIsLockPriceWindow ==
    /\ fOut = <<>>
    /\ fOut' = <<isLockPriceWindow(fIn.t, fIn.zone)>>
    /\ UNCHANGED <<appVars, sideVars, fIn>>

WindowNext == CallIsLockPriceWindow

SpecWindow == WindowInit /\ [][WindowNext]_vars

-----------------------------------------------------------------------------
(* utils/rateUtils.ts of part_003: calculateRiskLevel with thresholds *)

Thresholds(warning, danger, critical) ==
    [warning |-> warning, danger |-> danger, critical |-> critical]

\* 0.05, 0.08, 0.10 and 0.04, 0.06, 0.08
ThresholdSamples == {Thresholds(5000, 8000, 10000), Thresholds(4000, 6000, 8000)}

\* Market rates from 0.12 above to 0.12 below the platform rate, 0.01 apart.
GapMarketRates == {DefaultPlatformRate - g * 1000 : g \in -12..12}

ByGapInit ==
    /\ Idle
    /\ fIn \in [marketRate : GapMarketRates, platformRate : {DefaultPlatformRate},
                isLockWindow : BOOLEAN, exps : 0..MaxExp,
                thresholds : ThresholdSamples]
    /\ fOut = <<>>

CallRiskByGap ==
    /\ fOut = <<>>
    /\ fOut' = <<calculateRiskLevelByGap(fIn.marketRate, fIn.platformRate,
                                         fIn.isLockWindow, fIn.exps,
                                         fIn.thresholds)>>
    /\ UNCHANGED <<appVars, sideVars, fIn>>

ByGapNext == CallRiskByGap

SpecByGap == ByGapInit /\ [][ByGapNext]_vars

-----------------------------------------------------------------------------
(* components/AlertSystem.tsx: AlertBanner *)

\* if (riskLevel === 'safe' || alertDismissed || marketRate === 0) return null
Displayed(b, mr) ==
    ~(b.riskLevel = "safe" \/ b.alertDismissed \/ mr = 0)

\* An effect that leaves alertDismissed as it is.
ResetNever(dismissed, rendered, level) == dismissed

\* useEffect(() => { if (riskLevel === 'safe') resetAlert(); },
\*           [riskLevel, resetAlert]): alertDismissed after the effects of a
\* render with this level, the render before having had the level rendered.
ResetOnSafe(dismissed, rendered, level) ==
    IF level # rendered /\ level = "safe" THEN FALSE ELSE dismissed

\* AlertBanner renders with these store values, isLockPriceWindow() giving
\* isLockWindow, and its effects run.
Render(b, mr, pr, exps, isLockWindow) ==
    LET diff == pr - mr
        riskLevel == calculateRiskLevel(diff, isLockWindow, exps)
        dismissed == ResetOnSafe(b.alertDismissed, b.riskLevel, riskLevel)
    IN  [alertDismissed |-> dismissed, riskLevel |-> riskLevel,
         reset |-> (b.alertDismissed /\ ~dismissed)]

\* Market rates 0.01, 0.04, 0.05, 0.06 and 0.08 below the default platform
\* rate.
AlertMarketRates == {434000, 431000, 430000, 429000, 427000}

\* setMarketRate(rate) by a fetch cycle, and the render it causes
AlertMarketRate(rate, isLockWindow) ==
    /\ marketRate' = rate
    /\ banner' = Render(banner, rate, platformRate, consecutiveExpansions,
                        isLockWindow)
    /\ UNCHANGED <<platformRate, lastUpdated, rateHistory,
                   consecutiveExpansions, isInitialized, isLoading, error,
                   previousDiff, cycles, started, syncPc, now, last, fIn, fOut,
                   dailyStats, costBuffer, pending, timer>>

\* set({ platformRate: rate }), and the render it causes
AlertPlatformRate(rate, isLockWindow) ==
    /\ platformRate' = rate
    /\ banner' = Render(banner, marketRate, rate, consecutiveExpansions,
                        isLockWindow)
    /\ UNCHANGED <<marketRate, lastUpdated, rateHistory,
                   consecutiveExpansions, isInitialized, isLoading, error,
                   previousDiff, cycles, started, syncPc, now, last, fIn, fOut,
                   dailyStats, costBuffer, pending, timer>>

\* incrementExpansions() or resetExpansions(), and the render it causes
AlertExpansions(increment, isLockWindow) ==
    LET exps == IF increment THEN incrementExpansions(consecutiveExpansions)
                ELSE resetExpansions(consecutiveExpansions)
    IN  /\ exps <= MaxExp
        /\ consecutiveExpansions' = exps
        /\ banner' = Render(banner, marketRate, platformRate, exps, isLockWindow)
        /\ UNCHANGED <<marketRate, platformRate, lastUpdated, rateHistory,
                       isInitialized, isLoading, error, previousDiff, cycles,
                       started, syncPc, now, last, fIn, fOut, dailyStats,
                       costBuffer, pending, timer>>

\* A render without a change of the store (the clock of the header ticks).
Rerender(isLockWindow) ==
    /\ banner' = Render(banner, marketRate, platformRate,
                        consecutiveExpansions, isLockWindow)
    /\ UNCHANGED <<appVars, fIn, fOut, dailyStats, costBuffer, pending, timer>>

\* onClick={dismissAlert} of the banner: set({ alertDismissed: true })
DismissAlert ==
    /\ Displayed(banner, marketRate)
    /\ banner' = [banner EXCEPT !.alertDismissed = TRUE, !.reset = FALSE]
    /\ UNCHANGED <<appVars, fIn, fOut, dailyStats, costBuffer, pending, timer>>

AlertInit ==
    /\ Idle
    /\ fIn = NoCall
    /\ fOut = <<>>

AlertNext ==
    \/ \E rate \in AlertMarketRates, isLockWindow \in BOOLEAN :
          AlertMarketRate(rate, isLockWindow)
    \/ \E rate \in PlatformRates, isLockWindow \in BOOLEAN :
          AlertPlatformRate(rate, isLockWindow)
    \/ \E increment \in BOOLEAN, isLockWindow \in BOOLEAN :
          AlertExpansions(increment, isLockWindow)
    \/ \E isLockWindow \in BOOLEAN : Rerender(isLockWindow)
    \/ DismissAlert

SpecAlert == AlertInit /\ [][AlertNext]_vars

-----------------------------------------------------------------------------
(* components/HistoryTable.tsx: handleExport of the rate history *)

\* x.toFixed(4), read back as a number: the sign is set aside and the
\* magnitude is rounded
toFixed4Signed(x) == IF x < 0 THEN 0 - toFixed4(0 - x) ELSE toFixed4(x)

\* [...rateHistory].sort((a, b) => b.timestamp - a.timestamp); the
\* timestamps are distinct
RECURSIVE SortByTimestampDesc(_)
SortByTimestampDesc(history) ==
    IF Len(history) = 0 THEN <<>>
    ELSE LET k == CHOOSE i \in 1..Len(history) :
                     \A j \in 1..Len(history) :
                         history[j].timestamp <= history[i].timestamp
         IN  <<history[k]>> \o SortByTimestampDesc(Remove(history, k))

\* displayedHistory: "Sort by timestamp descending and take top 50"
displayedHistory(history) == SliceFirst(SortByTimestampDesc(history), 50)

\* One row of exportData, with the columns that hold numbers of the record
ExportRow(record) ==
    [timestamp |-> record.timestamp,
     platformRate |-> toFixed4(record.platformRate),
     marketRate |-> toFixed4(record.marketRate),
     diff |-> toFixed4Signed(record.diff),
     riskLevel |-> record.riskLevel]

\* The data rows that handleExport passes to exportToCSV, which writes one
\* line for each of them (and no file when there is none).
ExportRows(history) ==
    LET shown == displayedHistory(history)
    IN  [i \in 1..Len(shown) |-> ExportRow(shown[i])]

\* Histories of up to two records whose rates have a fifth decimal, the
\* market rate below and above the platform rate.
ExportRecords(timestamp) ==
    {RateRecord(timestamp, mr, DefaultPlatformRate, DefaultPlatformRate - mr, "safe") :
        mr \in {434004, 434005, 436004}}

ShortLedgers ==
    {<<>>} \cup {<<r>> : r \in ExportRecords(1)}
           \cup {<<r, q>> : r \in ExportRecords(1), q \in ExportRecords(2)}

\* Histories of 1 to MaxLedger records taken one time unit apart.
LongLedgers ==
    {[i \in 1..n |-> RateRecord(i, 434000, DefaultPlatformRate, 1000, "safe")] :
        n \in 1..MaxLedger}

ExportInit ==
    /\ Idle
    /\ fIn \in [history : ShortLedgers \cup LongLedgers]
    /\ fOut = <<>>

CallHandleExport ==
    /\ fOut = <<>>
    /\ fOut' = <<ExportRows(fIn.history)>>
    /\ UNCHANGED <<appVars, sideVars, fIn>>

ExportNext == CallHandleExport

SpecExport == ExportInit /\ [][ExportNext]_vars

-----------------------------------------------------------------------------
(* Properties *)

LastOf(h) == h[Len(h)]

FetchOrder == <<"ExchangeRate API", "Open ER API", "Currency API", "Frankfurter">>

\* The position in FetchOrder of the first source that succeeds, or
\* Len(FetchOrder) + 1 when none does.
FirstSuccess(outcomes) ==
    IF \E i \in 1..Len(FetchOrder) : outcomes[FetchOrder[i]].ok
    THEN CHOOSE i \in 1..Len(FetchOrder) :
            /\ outcomes[FetchOrder[i]].ok
            /\ \A j \in 1..(i - 1) : ~outcomes[FetchOrder[j]].ok
    ELSE Len(FetchOrder) + 1

C2_FailsIffAllFail ==
    \A n \in 1..Len(fOut) :
        LET res == fOut[n] IN
        /\ ~res.ok <=> (\A name \in SourceNames : ~fIn[name].ok)
        /\ res.ok => res.rate \in MarketRates
        /\ ~res.ok =>
              /\ Len(res.asked) = Cardinality(SourceNames)
              /\ res.error = SourceError(LastOf(res.asked),
                                         fIn[LastOf(res.asked)].kind)
              /\ LastOf(res.asked) = "Frankfurter"

\* All sources fail, the first and the last in different ways.
C2_Witness ==
    /\ fOut # <<>>
    /\ ~fOut[1].ok
    /\ fIn["ExchangeRate API"].kind # fIn["Frankfurter"].kind

\* A fetchRate call has just been made / has just failed / has just
\* succeeded (by the number of calls in flight and of calls made).
CallMade == Len(cycles') > Len(cycles)

CallFailed == Len(cycles') < Len(cycles) /\ last'.kind = "failed"

CallSucceeded ==
    /\ last'.kind = "ok"
    /\ \/ Len(cycles') < Len(cycles)
       \/ Len(cycles') = Len(cycles) /\ started' > started

\* C3: a fetch cycle in which all sources fail changes none of marketRate,
\* lastUpdated, rateHistory, consecutiveExpansions and the previous spread,
\* neither when it starts nor when it fails; it leaves the error message
\* set and the loading flag false.
C3_FailureNonDestructive ==
    [][/\ CallMade => UNCHANGED coreVars
       /\ CallFailed => /\ UNCHANGED coreVars
                        /\ error' # NoError
                        /\ isLoading' = FALSE]_vars

\* A cycle failed after earlier ones had published a rate and counted an
\* expansion.
C3_Witness ==
    /\ last.kind = "failed"
    /\ error # NoError
    /\ ~isLoading
    /\ marketRate # 0
    /\ consecutiveExpansions > 0
    /\ rateHistory # <<>>

\* C4: fetch cycles are serialized: at most one fetchRate call is in flight.
C4_Serialized == Len(cycles) <= 1

\* C5: a successful cycle that overlapped no other leaves the counter
\* unchanged when there is no previous reading, and otherwise increments it
\* by 1 when its |spread| is strictly greater than that of the previous
\* cycle and resets it to 0 when not.
C5_ExpansionTracker ==
    [][(CallSucceeded /\ ~last'.overlapped) =>
          consecutiveExpansions' =
             IF previousDiff.isNull THEN consecutiveExpansions
             ELSE IF Abs(previousDiff'.val) > Abs(previousDiff.val)
                  THEN consecutiveExpansions + 1
                  ELSE 0]_vars

\* Four cycles, none overlapping, with spreads 0.01, 0.02, 0.03, 0.02: the
\* counter, which was 0, 1, 2 after the first three, is 0 again.
C5_Witness ==
    /\ started = 4
    /\ cycles = <<>>
    /\ last.kind = "ok"
    /\ ~last.overlapped
    /\ Len(rateHistory) >= 4
    /\ [i \in 1..4 |-> Abs(rateHistory[Len(rateHistory) - 4 + i].diff)]
          = <<1000, 2000, 3000, 2000>>
    /\ consecutiveExpansions = 0

Warning == 5000

Danger == 6000

Critical == 8000

LockWarning == 4000

C7_EscalatesInSameCycle ==
    [][\A k \in 1..Len(cycles), res \in SampleResults, t \in Clock :
          (/\ FetchSucceeds(k, res, TRUE, t)
           /\ CallSucceeded
           /\ last'.appended
           /\ consecutiveExpansions' >= 2
           /\ Abs(previousDiff'.val) >= Warning
           /\ Abs(previousDiff'.val) < Critical)
          => LastOf(rateHistory').riskLevel = "critical"]_vars

\* C8: after a completed cycle whose spread is classified safe the counter
\* is 0.
C8_SafeResetsCounter ==
    [][(/\ CallSucceeded
        /\ last'.appended
        /\ LastOf(rateHistory').riskLevel = "safe")
       => consecutiveExpansions' = 0]_vars

\* The positions of the records of h that are younger than 7 days at time t.
Younger(h, t) == {i \in 1..Len(h) : h[i].timestamp > t - SevenDays}

\* C9: addRateRecord(record) at time now leaves exactly the previous records
\* with timestamp > now - 7 days, in their order, followed by record; a
\* record with timestamp = now - 7 days is pruned.
C9_AppendPrunes ==
    \A n \in 1..Len(fOut) :
        LET h == fIn.history
            out == fOut[n]
            keep == Younger(h, fIn.t)
            rank(i) == Cardinality({j \in keep : j <= i})
        IN  /\ Len(out) = Cardinality(keep) + 1
            /\ out[Len(out)] = fIn.record
            /\ \A i \in keep : out[rank(i)] = h[i]
            /\ \A i \in 1..Len(h) :
                  h[i].timestamp = fIn.t - SevenDays => i \notin keep

\* A history with a record exactly 7 days old followed by a younger one:
\* only the younger one is kept.
C9_Witness ==
    /\ fOut # <<>>
    /\ Len(fIn.history) = 2
    /\ fIn.history[1].timestamp = fIn.t - SevenDays
    /\ fIn.history[2].timestamp > fIn.t - SevenDays
    /\ fOut[1] = <<fIn.history[2], fIn.record>>

\* C10: after every successful cycle, whether it appended a record or not,
\* every record of rateHistory has timestamp > now - 7 days.
C10_WindowAfterCycle ==
    [][CallSucceeded =>
          \A i \in 1..Len(rateHistory') :
              rateHistory'[i].timestamp > now' - SevenDays]_vars

\* Two rates print the same with toFixed(4).
SameAt4Decimals(a, b) == (a + 5) \div 10 = (b + 5) \div 10

\* C11: a successful cycle appends its record (after the pruning of
\* addRateRecord) if and only if the history is empty or its market rate or
\* its platform rate differs at 4 decimals from that of the last record;
\* when both are the same the history is left as it was.
C11_Dedup ==
    \A n \in 1..Len(fOut) :
        LET h == fIn.history
            out == fOut[n]
            record == DedupRecord(fIn.t, fIn.rate, fIn.platformRate)
            differs ==
                \/ h = <<>>
                \/ ~SameAt4Decimals(LastOf(h).marketRate, fIn.rate)
                \/ ~SameAt4Decimals(LastOf(h).platformRate, fIn.platformRate)
        IN  IF differs
            THEN /\ out # <<>>
                 /\ LastOf(out) = record
                 /\ SubSeq(out, 1, Len(out) - 1)
                       = SelectSeq(h, LAMBDA r : r.timestamp > fIn.t - SevenDays)
            ELSE out = h

\* A rate that differs from the last record only after the 4th decimal is
\* not recorded, and the record in front, 7 days old, stays.
C11_Witness ==
    /\ fOut # <<>>
    /\ Len(fIn.history) = 2
    /\ fIn.rate # LastOf(fIn.history).marketRate
    /\ fIn.platformRate # LastOf(fIn.history).platformRate
    /\ fOut[1] = fIn.history

\* fetchRate() is called in this step.
CallStarted == started' > started

\* The call is made by a button (refetch), not by the auto-refresh effect.
ManualCall == CallFetchRate("refresh") \/ CallFetchRate("retry")

SyncOrder ==
    {<<"settings", "history">>, <<"history", "stats">>, <<"stats", "done">>,
     <<"settings", "failed">>, <<"history", "failed">>, <<"stats", "failed">>}

\* C12: the auto-refresh effect starts no fetch cycle while isInitialized is
\* false; isInitialized becomes true only in the step of syncWithSupabase
\* that follows the answers to the settings, history and daily stats
\* requests, taken in that order, and is never false again.
C12_InitializationGate ==
    [][/\ isInitialized => isInitialized'
       /\ (~isInitialized /\ isInitialized') =>
              (syncPc = "stats" /\ syncPc' = "done")
       /\ syncPc' # syncPc => <<syncPc, syncPc'>> \in SyncOrder
       /\ (CallStarted /\ ~ManualCall) => isInitialized']_vars

\* The three requests were answered and the first fetchRate call of the
\* session is the initial fetch of the effect.
C12_Witness ==
    /\ isInitialized
    /\ syncPc = "done"
    /\ started = 1
    /\ Len(cycles) = 1

\* The fetch timer runs with the interval for the window as it is now.
PeriodIsCurrent ==
    timer.interval = RefreshInterval(timer.utils, timer.isLockWindow)

\* C13: while the timers run, one minute after the lock window was entered
\* or left the fetch timer has the interval for the current window state,
\* and the interval inside the lock window is strictly shorter than the
\* interval outside it.
C13_PeriodFollowsWindow ==
    timer.running =>
        /\ timer.sinceChange = 6 => PeriodIsCurrent
        /\ RefreshInterval(timer.utils, TRUE) < RefreshInterval(timer.utils, FALSE)

\* C14: persistence is fire-and-forget.  A step that issues a write has put
\* the written value in memory in that same step; a step in which a write
\* succeeds or fails changes neither the store's data nor the error and
\* loading state of the fetch cycle, and issues no further write.
Memory == <<platformRate, costBuffer, rateHistory, dailyStats, marketRate,
            lastUpdated, consecutiveExpansions>>

InMemory(w) ==
    CASE w.table = "platform_rate" -> platformRate = w.payload
      [] w.table = "cost_buffer" -> costBuffer = w.payload
      [] w.table = "rate_history" ->
            /\ Len(rateHistory) > 0
            /\ LastOf(rateHistory) = w.payload
      [] w.table = "daily_stats" ->
            \E i \in 1..Len(dailyStats) : dailyStats[i] = w.payload

C14_FireAndForget ==
    [][/\ Len(pending') > Len(pending) =>
            /\ Len(pending') = Len(pending) + 1
            /\ \E w \in {LastOf(pending')} :
                  w.status = "inflight" /\ InMemory(w)'
       /\ \A k \in 1..Len(pending) :
            (pending[k].status = "inflight" /\ pending'[k].status # "inflight")
            => /\ Memory' = Memory
               /\ error' = error
               /\ isLoading' = isLoading
               /\ Len(pending') = Len(pending)
               /\ \A j \in 1..Len(pending) : j # k => pending'[j] = pending[j]]_vars

C14_Witness ==
    \E k \in 1..Len(pending), j \in 1..Len(pending) :
        /\ pending[k].status = "failed"
        /\ pending[k].table = "rate_history"
        /\ InMemory(pending[k])
        /\ pending[j].status = "ok"
        /\ error = NoError

\* C15: dailyStats never holds more than 7 entries; updateDailyStats for a
\* new date with 7 entries present drops the oldest entry, and for a date
\* that is present replaces that entry and keeps the number of entries.
C15_AtMostSeven == Len(dailyStats) <= 7

\* The part of C15 about updateDailyStats alone.
C15_UpdateKeepsCapacity ==
    [][\A date \in 1..MaxDate, risk \in {"safe", "danger"} :
          UpdateDailyStats(DayStats(date, risk)) =>
             IF FindIndex(dailyStats, date) > 0
             THEN /\ Len(dailyStats') = Len(dailyStats)
                  /\ dailyStats'[FindIndex(dailyStats, date)] = DayStats(date, risk)
             ELSE /\ Len(dailyStats) <= 6 => dailyStats' = Append(dailyStats, DayStats(date, risk))
                  /\ Len(dailyStats) = 7 =>
                        dailyStats' = Append(Tail(dailyStats), DayStats(date, risk))]_vars

\* The records of one date, and the dates that have records, on this host.
RecordsOfDate(history, date, host) ==
    SelectSeq(history, LAMBDA r : DateKey(r.timestamp, host) = date)

DatesOf(history, host) ==
    {DateKey(history[i].timestamp, host) : i \in 1..Len(history)}

\* The 7 latest dates that have records.
RecentDates(history, host) ==
    {d \in DatesOf(history, host) :
        Cardinality({e \in DatesOf(history, host) : e > d}) < 7}

IsMaximum(x, values) == x \in values /\ \A v \in values : v <= x

IsMinimum(x, values) == x \in values /\ \A v \in values : x <= v

\* q is the arithmetic mean of the values
IsMean(q, values) == q.den > 0 /\ q.num * Len(values) = SumSeq(values) * q.den

HasFigures(stats, records) ==
    LET diffs == [j \in 1..Len(records) |-> records[j].diff]
        rates == [j \in 1..Len(records) |-> records[j].marketRate]
        Range(f) == {f[j] : j \in 1..Len(f)}
    IN  /\ IsMaximum(stats.maxDiff, Range(diffs))
        /\ IsMinimum(stats.minDiff, Range(diffs))
        /\ IsMaximum(stats.maxMarketRate, Range(rates))
        /\ IsMinimum(stats.minMarketRate, Range(rates))
        /\ IsMean(stats.avgDiff, diffs)
        /\ IsMean(stats.avgMarketRate, rates)

RolledUp(dates) ==
    \A date \in dates :
        \E i \in 1..Len(fOut[1]) :
            /\ fOut[1][i].date = date
            /\ HasFigures(fOut[1][i], RecordsOfDate(fIn.history, date, fIn.host))

\* C16 as stated: every date that has records in rateHistory has a derived
\* DailyStats whose maxDiff, minDiff, maxMarketRate and minMarketRate are
\* the maximum and minimum, and whose avgDiff and avgMarketRate are the
\* arithmetic mean, over all records of that date.
C16_RollupOfEveryDate ==
    fOut # <<>> => RolledUp(DatesOf(fIn.history, fIn.host))

\* C16, amended: each of the 7 latest dates that have records in rateHistory
\* has a derived DailyStats with these figures; an earlier date has none.
C16_RollupFigures ==
    fOut # <<>> =>
        /\ RolledUp(RecentDates(fIn.history, fIn.host))
        /\ \A i \in 1..Len(fOut[1]) :
              fOut[1][i].date \in RecentDates(fIn.history, fIn.host)

\* diffs 0.01, 0.05, -0.02 on one date: max 0.05, min -0.02, mean 0.04 / 3
C16_Witness ==
    /\ fOut # <<>>
    /\ Len(fIn.history) = 3
    /\ Len(fOut[1]) = 1
    /\ fOut[1][1].maxDiff = 5000
    /\ fOut[1][1].minDiff = -2000
    /\ fOut[1][1].avgDiff = Quotient(4000, 3)

\* The worst of the risk levels of these records.
IsWorst(level, records) ==
    /\ \E j \in 1..Len(records) : records[j].riskLevel = level
    /\ \A j \in 1..Len(records) : riskOrder(records[j].riskLevel) <= riskOrder(level)

\* C17: the riskLevel of a day's DailyStats is the worst risk level (safe <
\* warning < danger < critical) among all records of that date, so it is
\* never below the level of the date with its last record left out.
C17_WorstRiskOfDay ==
    fOut # <<>> =>
        \A i \in 1..Len(fOut[1]) :
            LET records == RecordsOfDate(fIn.history, fOut[1][i].date, fIn.host)
                before == SubSeq(records, 1, Len(records) - 1)
            IN  /\ IsWorst(fOut[1][i].riskLevel, records)
                /\ \A level \in RiskLevels :
                      IsWorst(level, before) =>
                         riskOrder(level) <= riskOrder(fOut[1][i].riskLevel)

\* A date whose records are critical, then safe: the day stays critical.
C17_Witness ==
    /\ fOut # <<>>
    /\ Len(fOut[1]) = 1
    /\ Len(fIn.history) = 2
    /\ fIn.history[1].riskLevel = "critical"
    /\ fIn.history[2].riskLevel = "safe"
    /\ fOut[1][1].riskLevel = "critical"

\* What lockTimeRate is when the last of these records that lies within
\* 23:45 to 23:55 sets it, and nothing when none does.
LastNearLockTime(records, host) ==
    LET near == SelectSeq(records, LAMBDA r : NearLockTime(r.timestamp, host))
    IN  IF Len(near) = 0 THEN Null ELSE Some(LastOf(near).marketRate)

\* C18: lockTimeRate of a day's DailyStats is the marketRate of the last
\* record of that date whose local time is within 23:45 to 23:55 inclusive,
\* the first record of the date included, and is unset exactly when the date
\* has no such record.
C18_LockTimeRate ==
    fOut # <<>> =>
        \A i \in 1..Len(fOut[1]) :
            fOut[1][i].lockTimeRate =
                LastNearLockTime(RecordsOfDate(fIn.history, fOut[1][i].date, fIn.host),
                                 fIn.host)

\* The part of C18 that leaves the first record of each date out.
C18_LockTimeRateOfLaterRecords ==
    fOut # <<>> =>
        \A i \in 1..Len(fOut[1]) :
            fOut[1][i].lockTimeRate =
                LastNearLockTime(Tail(RecordsOfDate(fIn.history, fOut[1][i].date,
                                                    fIn.host)),
                                 fIn.host)

\* C19: the daily rollup attributes every record to its date and time of
\* day in GMT+8, so the derived statistics (the grouping into dates and the
\* 23:45-23:55 check) on any host are those of a host in GMT+8.
C19_RollupInGMT8 ==
    fOut # <<>> => fOut[1] = DerivedDailyStats(fIn.history, GMT8)

\* The wall-clock time in GMT+8 is between 23:20 and 00:30, both included.
InLockWindowGMT8(instant) ==
    LET minuteOfDay == (instant + GMT8) % MinutesPerDay
    IN  minuteOfDay >= 23 * 60 + 20 \/ minuteOfDay <= 30

\* C20: isLockPriceWindow(t) is true if and only if the GMT+8 wall-clock
\* time of t is between 23:20 and 00:30, both minutes included, whatever the
\* timezone of the host.
C20_LockWindowInGMT8 ==
    fOut # <<>> => (fOut[1] <=> InLockWindowGMT8(fIn.t))

\* The part of C20 for hosts whose offset from UTC never changes.
C20_LockWindowOnFixedOffset ==
    (fOut # <<>> /\ fIn.zone \in FixedZones) =>
        (fOut[1] <=> InLockWindowGMT8(fIn.t))

\* C21: every record in rateHistory, after any sequence of cycles and
\* platform-rate changes, has diff = platformRate - marketRate over its own
\* fields.
C21_OneSignConvention ==
    \A i \in 1..Len(rateHistory) :
        rateHistory[i].diff = rateHistory[i].platformRate - rateHistory[i].marketRate

\* Two records appended by cycles, the later one after a platform-rate change.
C21_Witness ==
    /\ Len(rateHistory) >= 2
    /\ last.kind = "ok"
    /\ last.appended
    /\ LastOf(rateHistory).platformRate # rateHistory[1].platformRate
    /\ LastOf(rateHistory).diff # 0

\* The level of a spread magnitude in the bands the thresholds delimit.
BandOf(magnitude, thresholds) ==
    IF magnitude >= thresholds.critical THEN "critical"
    ELSE IF magnitude >= thresholds.danger THEN "danger"
    ELSE IF magnitude >= thresholds.warning THEN "warning"
    ELSE "safe"

\* C22: with thresholds warning < danger < critical and outside the lock
\* window, the classifier with thresholds returns safe for a spread magnitude
\* below warning, warning from warning up to below danger, danger from danger
\* up to below critical, and critical at or above critical.
C22_ThresholdBands ==
    (fOut # <<>> /\ ~fIn.isLockWindow) =>
        fOut[1] = BandOf(Abs(fIn.platformRate - fIn.marketRate), fIn.thresholds)

C24_AcknowledgementReset ==
    [][/\ banner'.riskLevel = "safe" => ~banner'.alertDismissed
       /\ (banner.riskLevel = "safe" /\ banner'.riskLevel # "safe"
           /\ marketRate' # 0) => Displayed(banner', marketRate')]_vars

\* The level returned to safe and the effect reset an alert that had been
\* dismissed.
C24_Witness ==
    /\ banner.reset
    /\ banner.riskLevel = "safe"
    /\ ~banner.alertDismissed
    /\ marketRate # 0

\* C25: every record that is in the local rateHistory when the history
\* step of syncWithSupabase runs, and is younger than 7 days, is in
\* rateHistory after it.
C25_SyncMergesHistory ==
    [][(syncPc = "history" /\ syncPc' = "stats") =>
          \A i \in 1..Len(rateHistory) :
              rateHistory[i].timestamp > now - SevenDays =>
                  \E j \in 1..Len(rateHistory') : rateHistory'[j] = rateHistory[i]]_vars

\* The row gives the record's number to 4 decimals.
To4Decimals(shown, value) ==
    /\ shown % 10 = 0
    /\ Abs(shown - value) <= 5

RowOf(row, record) ==
    /\ row.timestamp = record.timestamp
    /\ To4Decimals(row.platformRate, record.platformRate)
    /\ To4Decimals(row.marketRate, record.marketRate)
    /\ To4Decimals(row.diff, record.diff)

\* C26: the export of the history has exactly one row for every record in
\* rateHistory, and a row read back gives the record's platformRate,
\* marketRate and diff to 4 decimals.
C26_ExportLosesNoRecord ==
    fOut # <<>> =>
        /\ Len(fOut[1]) = Len(fIn.history)
        /\ \A i \in 1..Len(fIn.history) :
              \E j \in 1..Len(fOut[1]) : RowOf(fOut[1][j], fIn.history[i])

\* The part of C26 for histories of at most 50 records.
C26_ExportOfFiftyRecords ==
    (fOut # <<>> /\ Len(fIn.history) <= 50) =>
        /\ Len(fOut[1]) = Len(fIn.history)
        /\ \A i \in 1..Len(fIn.history) :
              \E j \in 1..Len(fOut[1]) : RowOf(fOut[1][j], fIn.history[i])

\* C27: marketRate in the store is the rate the aggregator returned in the
\* fetch cycle that succeeded last, also when that cycle appended no record,
\* and 0 as long as no cycle has succeeded.
C27_RawRatePublished ==
    /\ marketRate = last.rate
    /\ previousDiff.isNull => marketRate = 0

\* The cycle that succeeded last appended no record, and its rate is
\* published.
C27_Witness ==
    /\ last.kind = "ok"
    /\ ~last.appended
    /\ started >= 2
    /\ marketRate = LastOf(rateHistory).marketRate

\* C28: the step in which a fetch cycle succeeds makes no fetchRate call,
\* also when it changes the previous spread, the expansion counter or the
\* market rate: automatic calls are made when the scheduler starts and at
\* timer ticks only.
C28_SuccessStartsNoCycle ==
    [][CallSucceeded => started' = started]_vars

\* C29: a record appended by a fetch cycle carries the platform rate the
\* store holds at the moment of the append, and its diff is that platform
\* rate minus the record's market rate, also when setPlatformRate ran while
\* the fetch was in flight.
C29_RecordCarriesCurrentPlatformRate ==
    [][(CallSucceeded /\ last'.appended) =>
          /\ LastOf(rateHistory').platformRate = platformRate'
          /\ LastOf(rateHistory').diff = platformRate' - LastOf(rateHistory').marketRate]_vars

\* C30: isLoading is TRUE exactly in the states in which at least one fetch
\* cycle has started and not yet completed.
C30_LoadingReflectsInFlight ==
    isLoading <=> Len(cycles) > 0

\* C31: while the timers of the auto-refresh effect run, the time since the
\* effect or the fetch timer called fetchRate() last never exceeds the
\* longest refresh interval plus the period of checkInterval, whatever the
\* refresh interval and whichever of two timers due in the same instant
\* fires first.
C31_FetchTimerNotStarved ==
    timer.running =>
        timer.quiet <= RefreshInterval("part_003", FALSE) + CheckEvery

-----------------------------------------------------------------------------
(* App.tsx: the start of the application, with no input from the user *)

\* One step of the syncWithSupabase call made by the mount effect of App.
SyncStep ==
    \/ SyncThrows
    \/ \E hasRate \in BOOLEAN, r \in PlatformRates : SyncSettings(hasRate, r)
    \/ \E hasData \in BOOLEAN, history \in RemoteHistories(now) :
          SyncHistory(hasData, history)
    \/ SyncStats

StartNext ==
    \/ SyncStep
    \/ \E k \in 1..MaxInFlight, res \in SampleResults, isLockWindow \in BOOLEAN,
          t \in Clock : FetchSucceeds(k, res, isLockWindow, t)
    \/ \E k \in 1..MaxInFlight, res \in SampleResults : FetchFails(k, res)

\* Every request to Supabase settles: it returns or it throws.
SpecStart == Init /\ [][StartNext]_vars /\ WF_vars(SyncStep)

\* C32: after the application starts, syncWithSupabase eventually sets
\* isInitialized to true, whether its requests return data, return none or
\* throw.
C32_EventuallyInitialized ==
    <>isInitialized

\* C33: a render of AlertBanner with a risk level other than the one
\* rendered before leaves alertDismissed false, so that a level other than
\* safe is displayed again once a market rate is known.
C33_DismissalResetOnChange ==
    [][banner'.riskLevel # banner.riskLevel =>
          /\ ~banner'.alertDismissed
          /\ (banner'.riskLevel # "safe" /\ marketRate' # 0)
                => Displayed(banner', marketRate')]_vars

-----------------------------------------------------------------------------
(* services/rateApi.ts: the responses of the sources *)

\* A JavaScript number: NaN, or a finite value in units of 0.00001.
NaN == [nan |-> TRUE, val |-> 0]

Num(x) == [nan |-> FALSE, val |-> x]

\* x * 1.002 and a - b; an operand that is NaN or undefined gives NaN.
TimesPremium(x) == IF x.nan THEN NaN ELSE Num((x.val * 1002) \div 1000)

Minus(a, b) == IF a.nan \/ b.nan THEN NaN ELSE Num(a.val - b.val)

\* What fetch() and response.json() give for one source: no response, a
\* response that is not OK, or an OK response whose body has the rates
\* object (data.rates, data.usd) or not, with the MYR field or without it.
Responses ==
    {[answered |-> FALSE, ok |-> FALSE, rates |-> FALSE, MYR |-> NaN],
     [answered |-> TRUE, ok |-> FALSE, rates |-> FALSE, MYR |-> NaN],
     [answered |-> TRUE, ok |-> TRUE, rates |-> FALSE, MYR |-> NaN],
     [answered |-> TRUE, ok |-> TRUE, rates |-> TRUE, MYR |-> NaN]} \cup
    {[answered |-> TRUE, ok |-> TRUE, rates |-> TRUE, MYR |-> Num(usd)] :
        usd \in {431000, 432000}}

\* fetchFromExchangeRateAPI and the three like it: the TypeError of fetch,
\* `throw new Error('<name> failed')`, the TypeError of reading MYR of
\* undefined, or `return data.rates.MYR * 1.002`, where a missing MYR field
\* reads as undefined.
SourceFetch(response) ==
    IF ~response.answered THEN [ok |-> FALSE, rate |-> NaN, kind |-> "network"]
    ELSE IF ~response.ok THEN [ok |-> FALSE, rate |-> NaN, kind |-> "http"]
    ELSE IF ~response.rates THEN [ok |-> FALSE, rate |-> NaN, kind |-> "type"]
    ELSE [ok |-> TRUE, rate |-> TimesPremium(response.MYR), kind |-> "none"]

\* fetchRate after `const rate = await fetchUSDTMYRRate()` returned, with an
\* empty history: setMarketRate(rate), diff = platformRate - rate, and the
\* record that is appended.
PublishRate(pr, rate) ==
    [marketRate |-> rate,
     record |-> [marketRate |-> rate, platformRate |-> pr,
                 diff |-> Minus(pr, rate)]]

\* fetchRate called when the sources answer with responses.
FetchAndPublish(pr, responses) ==
    LET res == fetchUSDTMYRRate([name \in SourceNames |->
                                    SourceFetch(responses[name])])
    IN  IF res.ok
        THEN [ok |-> TRUE, asked |-> res.asked,
              published |-> PublishRate(pr, res.rate)]
        ELSE [ok |-> FALSE, asked |-> res.asked,
              published |-> PublishRate(pr, NaN)]

ParseInit ==
    /\ Idle
    /\ fIn \in [SourceNames -> Responses]
    /\ fOut = <<>>

CallFetchAndPublish ==
    /\ fOut = <<>>
    /\ fOut' = <<FetchAndPublish(Num(platformRate), fIn)>>
    /\ UNCHANGED <<appVars, sideVars, fIn>>

ParseNext == CallFetchAndPublish

SpecParse == ParseInit /\ [][ParseNext]_vars

\* The number is finite and greater than zero.
FinitePositive(x) == ~x.nan /\ x.val > 0

\* A source whose response is OK but has no MYR field was asked.
AskedWithoutField(asked, responses) ==
    \E i \in 1..Len(asked) :
        /\ responses[asked[i]].ok
        /\ responses[asked[i]].rates
        /\ responses[asked[i]].MYR.nan

\* C34: a fetchRate call whose fetch succeeded publishes a finite positive
\* market rate and appends a record with a finite positive marketRate and a
\* finite diff; a source whose OK response lacks the MYR field is passed
\* over, the source after it being asked.
C34_OnlyNumericRates ==
    (fOut # <<>> /\ fOut[1].ok) =>
        /\ FinitePositive(fOut[1].published.marketRate)
        /\ FinitePositive(fOut[1].published.record.marketRate)
        /\ ~fOut[1].published.record.diff.nan
        /\ AskedWithoutField(fOut[1].asked, fIn) =>
              ~fIn[LastOf(fOut[1].asked)].MYR.nan

-----------------------------------------------------------------------------
(* The order of rateHistory.  Time is counted in units of 3.5 days here, so *)
(* that the history holds records of different ages.                        *)

\* 7 * 24 * 60 * 60 * 1000 in units of 3.5 days
SevenDaysInHalfWeeks == 2

OrderRecord(ts, mr) ==
    RateRecord(ts, mr, DefaultPlatformRate, DefaultPlatformRate - mr,
               calculateRiskLevel(DefaultPlatformRate - mr, FALSE, 0))

\* What an earlier session left in localStorage.
OrderPersisted ==
    {<<>>, <<OrderRecord(0 - SevenDaysInHalfWeeks, 434000)>>,
     <<OrderRecord(0 - 1, 434000), OrderRecord(0, 433000)>>}

\* Rows of rate_history younger than 7 days when the query is made at t, in
\* ascending order of timestamp.
OrderRemoteHistories(t) ==
    LET times == {ts \in (t - SevenDaysInHalfWeeks)..t :
                     ts > t - SevenDaysInHalfWeeks}
    IN  {<<>>} \cup {<<OrderRecord(ts, 434000)>> : ts \in times}
        \cup {<<OrderRecord(p[1], 434000), OrderRecord(p[2], 433000)>> :
                 p \in {q \in times \X times : q[1] <= q[2]}}

\* Rates the sources return.
OrderResults ==
    {res \in SampleResults : res.ok => res.rate \in {434000, 433000}}

OrderInit ==
    /\ marketRate = 0
    /\ platformRate = DefaultPlatformRate
    /\ lastUpdated = 0
    /\ rateHistory \in OrderPersisted
    /\ consecutiveExpansions = 0
    /\ isInitialized = FALSE
    /\ isLoading = FALSE
    /\ error = NoError
    /\ previousDiff = Null
    /\ cycles = <<>>
    /\ started = 0
    /\ syncPc = "settings"
    /\ now = 0
    /\ last = NoCycle
    /\ fIn = NoCall
    /\ fOut = <<>>
    /\ SideIdle

OrderNext ==
    \/ \E trigger \in {"timer", "refresh", "retry"} : CallFetchRate(trigger)
    \/ \E k \in 1..MaxInFlight, res \in OrderResults, t \in now..MaxHalfWeeks :
          FetchSucceedsSince(k, res, FALSE, t, t - SevenDaysInHalfWeeks)
    \/ \E k \in 1..MaxInFlight, res \in OrderResults : FetchFails(k, res)
    \/ SyncThrows
    \/ SyncSettings(FALSE, DefaultPlatformRate)
    \/ \E hasData \in BOOLEAN, history \in OrderRemoteHistories(now) :
          SyncHistory(hasData, history)
    \/ SyncStats
    \/ rateHistory # <<>> /\ ClearHistory

SpecOrder == OrderInit /\ [][OrderNext]_vars

\* C35: rateHistory is in non-decreasing order of timestamp in every
\* reachable state, with no record newer than the last reading of the clock,
\* so the last record, the one the de-duplication check reads, is a most
\* recent one.
C35_HistoryOrdered ==
    /\ IsSorted(rateHistory)
    /\ \A i \in 1..Len(rateHistory) :
          /\ rateHistory[i].timestamp <= now
          /\ rateHistory[i].timestamp <= LastOf(rateHistory).timestamp

\* A cycle that overlapped another one appended a record to a history that
\* holds an older record, after syncWithSupabase replaced the history.
C35_Witness ==
    /\ Len(rateHistory) >= 2
    /\ rateHistory[1].timestamp < LastOf(rateHistory).timestamp
    /\ last.kind = "ok"
    /\ last.appended
    /\ last.overlapped
    /\ syncPc \in {"stats", "done"}

====
